---- MODULE Spec2Model ----
(***************************************************************************)
(* Model of the document embedding indexer (src/index_documents.py).       *)
(*                                                                         *)
(* A text is a sequence of one-character strings.  Three specifications:   *)
(*   SpecChunk  the chunking functions called directly on bounded inputs   *)
(*   SpecStore  store_chunks called directly on bounded inputs             *)
(*   Spec       one run of main(), from argument parsing to process exit   *)
(***************************************************************************)
EXTENDS Integers, Sequences, FiniteSets, TLC

\* ------------------------------------------------------------------ bounds
MaxLen == 4          \* longest text given to the sentence/paragraph splitters
MaxFixedLen == 5     \* longest text given to chunk_fixed_size directly
MaxSize == 3         \* largest chunk_size / overlap given to chunk_fixed_size
MaxIter == 8         \* cap on the iterations of a loop that never ends
MaxDocLen == 5       \* longest raw text a document yields
MaxVec == 2          \* number of distinct embedding vectors
MaxStoreLen == 2     \* longest sequences given to store_chunks directly

\* ------------------------------------------------------- program constants
DEFAULT_CHUNK_SIZE == 500
DEFAULT_CHUNK_OVERLAP == 50

None == "None"

Whitespace == {" ", "\n"}
Terminators == {".", "!", "?"}
Alphabet == {"a", ".", "!", "?", " ", "\n"}
FixedAlphabet == {"a", ".", " "}
DocAlphabet == {"a", ".", "\n"}

SeqsUpTo(S, n) == UNION {[1..k -> S] : k \in 0..n}

\* ------------------------------------------------------------ str helpers
RECURSIVE lstrip(_)
lstrip(s) ==
    IF s = <<>> THEN <<>>
    ELSE IF Head(s) \in Whitespace THEN lstrip(Tail(s)) ELSE s

RECURSIVE rstrip(_)
rstrip(s) ==
    IF s = <<>> THEN <<>>
    ELSE IF s[Len(s)] \in Whitespace THEN rstrip(SubSeq(s, 1, Len(s) - 1)) ELSE s

\* str.strip()
strip(s) == rstrip(lstrip(s))

\* A slice index as Python normalises it: negative counts from the end,
\* then clamped to 0..len.
ClampIndex(i, L) ==
    IF i < 0 THEN (IF i + L < 0 THEN 0 ELSE i + L)
    ELSE IF i > L THEN L ELSE i

\* text[a:b], 0-based, end exclusive
Slice(t, a, b) ==
    LET lo == ClampIndex(a, Len(t))
        hi == ClampIndex(b, Len(t))
    IN  IF lo >= hi THEN <<>> ELSE SubSeq(t, lo + 1, hi)

\* --------------------------------------------------------- chunk_fixed_size
\* One pass of the while body: st is [start, chunks].
FixedBodySkipOverlap(t, S, O, st) ==
    LET chunk == Slice(t, st.start, st.start + S)
    IN  [start  |-> st.start + S,
         chunks |-> IF strip(chunk) # <<>>
                    THEN Append(st.chunks, strip(chunk)) ELSE st.chunks]

FixedBody(t, S, O, st) ==
    LET end   == st.start + S
        chunk == Slice(t, st.start, end)
    IN  [start  |-> st.start + S - O,
         chunks |-> IF strip(chunk) # <<>>
                    THEN Append(st.chunks, strip(chunk)) ELSE st.chunks]

FixedGuard(t, st) == st.start < Len(t)

FixedEntry == [start |-> 0, chunks |-> <<>>]

RECURSIVE FixedLoop(_, _, _, _)
FixedLoop(t, S, O, st) ==
    IF FixedGuard(t, st) THEN FixedLoop(t, S, O, FixedBody(t, S, O, st))
    ELSE st.chunks

\* The whole call, for parameters with which the loop ends.
chunk_fixed_size(t, S, O) == FixedLoop(t, S, O, FixedEntry)

\* ------------------------------------------------------------------ regex
SENTENCE_SPLIT_PATTERN == "(?<=[.!?])\\s+"
PARAGRAPH_SPLIT_PATTERN == "\\n\\s*\\n"

\* End (0-based, exclusive) of the whitespace run that starts at 0-based i.
RECURSIVE RunEnd(_, _)
RunEnd(t, i) ==
    IF i < Len(t) /\ t[i + 1] \in Whitespace THEN RunEnd(t, i + 1) ELSE i

\* (?<=[.!?])\s+ tried at 0-based position i: the end of the match, or -1.
SentenceMatchAnySpace(t, i) ==
    IF i < Len(t) /\ t[i + 1] \in Whitespace THEN RunEnd(t, i) ELSE -1

SentenceMatch(t, i) ==
    IF /\ i >= 1
       /\ t[i] \in Terminators
       /\ i < Len(t)
       /\ t[i + 1] \in Whitespace
    THEN RunEnd(t, i)
    ELSE -1

\* \n\s*\n tried at 0-based position i: \s* is greedy and backtracks, so the
\* match ends after the last newline of the whitespace run, or fails (-1).
ParagraphMatch(t, i) ==
    IF i < Len(t) /\ t[i + 1] = "\n"
    THEN LET e  == RunEnd(t, i)
             js == {j \in (i + 2)..e : t[j] = "\n"}
         IN  IF js = {} THEN -1
             ELSE CHOOSE j \in js : \A k \in js : k <= j
    ELSE -1

MatchAt(pattern, t, i) ==
    IF pattern = SENTENCE_SPLIT_PATTERN THEN SentenceMatch(t, i)
    ELSE ParagraphMatch(t, i)

\* re.split(pattern, t): scan from i, the current piece began at 'from'.
RECURSIVE SplitFrom(_, _, _, _)
SplitFrom(pattern, t, i, from) ==
    IF i >= Len(t) THEN << Slice(t, from, Len(t)) >>
    ELSE LET e == MatchAt(pattern, t, i)
         IN  IF e # -1
             THEN << Slice(t, from, i) >> \o SplitFrom(pattern, t, e, e)
             ELSE SplitFrom(pattern, t, i + 1, from)

re_split(pattern, t) == SplitFrom(pattern, t, 0, 0)

RECURSIVE StripOnly(_)
StripOnly(pieces) ==
    IF pieces = <<>> THEN <<>>
    ELSE << strip(Head(pieces)) >> \o StripOnly(Tail(pieces))

\* [x.strip() for x in pieces if x.strip()]
RECURSIVE StripAndFilter(_)
StripAndFilter(pieces) ==
    IF pieces = <<>> THEN <<>>
    ELSE LET s == strip(Head(pieces))
         IN  (IF s # <<>> THEN << s >> ELSE <<>>) \o StripAndFilter(Tail(pieces))

chunk_by_sentences(t) == StripAndFilter(re_split(SENTENCE_SPLIT_PATTERN, t))

chunk_by_paragraphs(t) == StripAndFilter(re_split(PARAGRAPH_SPLIT_PATTERN, t))

VALID_STRATEGIES == {"fixed", "sentence", "paragraph"}

\* chunk_text: the chunks, or the exception raised.
chunk_text(t, strategy) ==
    IF strategy = "fixed"
    THEN [raised |-> None,
          chunks |-> chunk_fixed_size(t, DEFAULT_CHUNK_SIZE, DEFAULT_CHUNK_OVERLAP)]
    ELSE IF strategy = "sentence"
    THEN [raised |-> None, chunks |-> chunk_by_sentences(t)]
    ELSE IF strategy = "paragraph"
    THEN [raised |-> None, chunks |-> chunk_by_paragraphs(t)]
    ELSE [raised |-> "ValueError", chunks |-> <<>>]


\* ============================================================== the state
VARIABLES
    call,        \* SpecChunk: the chunking call under test [fn, text, strategy, chunk_size, overlap]
    c_pc,        \* SpecChunk: "entry", "loop", "returned" or "raised"
    start,       \* chunk_fixed_size: start
    c_chunks,    \* chunk_fixed_size: chunks; for the other calls, the value returned
    iter,        \* chunk_fixed_size: passes of the while body made so far
    pc,          \* main: position in the run
    argv,        \* main: [exists, ext, name, strategy]
    env,         \* os.environ: [GOOGLE_CLOUD_PROJECT, POSTGRES_URL]
    text,        \* main: text
    chunks,      \* main: chunks
    embeddings,  \* generate_embeddings: embeddings
    i,           \* generate_embeddings: chunks already taken by the for loop
    calls,       \* the embed_content calls started, in order: [chunk, result]
    conn,        \* the connection: "none", "open" or "closed"
    opened,      \* number of psycopg2.connect calls that succeeded
    txn,         \* rows inserted in the open transaction, not yet committed
    committed,   \* rows of document_chunks committed by this run
    raised,      \* the exception propagating to main's handlers, or None
    failed_at,   \* the position at which the run failed, or None
    entered,     \* the driver stages entered so far, in order
    exit_code    \* <<>> while the process runs, then << status >>

cvars == << call, c_pc, start, c_chunks, iter >>
pvars == << pc, argv, env, text, chunks, embeddings, i, calls, conn, opened,
            txn, committed, raised, failed_at, entered, exit_code >>
vars == << call, c_pc, start, c_chunks, iter, pc, argv, env, text, chunks,
           embeddings, i, calls, conn, opened, txn, committed, raised,
           failed_at, entered, exit_code >>

\* ================================================ SpecChunk: the chunkers
Texts == SeqsUpTo(Alphabet, MaxLen)
FixedTexts == SeqsUpTo(FixedAlphabet, MaxFixedLen)

\* The spec's example: 1000 'a' characters.
ExampleText == [k \in 1..(2 * DEFAULT_CHUNK_SIZE) |-> "a"]

FixedCalls ==
    [fn : {"chunk_fixed_size"}, text : FixedTexts, strategy : {"fixed"},
     chunk_size : 1..MaxSize, overlap : 0..MaxSize]

SplitCalls ==
    [fn : {"chunk_by_sentences", "chunk_by_paragraphs"}, text : Texts,
     strategy : {None},
     chunk_size : {DEFAULT_CHUNK_SIZE}, overlap : {DEFAULT_CHUNK_OVERLAP}]

ChunkTextCalls ==
    [fn : {"chunk_text"}, text : Texts,
     strategy : VALID_STRATEGIES \cup {"semantic"},
     chunk_size : {DEFAULT_CHUNK_SIZE}, overlap : {DEFAULT_CHUNK_OVERLAP}]
    \cup
    [fn : {"chunk_text"}, text : {ExampleText}, strategy : {"fixed"},
     chunk_size : {DEFAULT_CHUNK_SIZE}, overlap : {DEFAULT_CHUNK_OVERLAP}]

IdleArgv == [exists |-> FALSE, ext |-> ".pdf", name |-> "doc", strategy |-> "fixed"]
IdleEnv == [GOOGLE_CLOUD_PROJECT |-> None, POSTGRES_URL |-> None]

PipelineIdle ==
    /\ pc = "idle" /\ argv = IdleArgv /\ env = IdleEnv
    /\ text = <<>> /\ chunks = <<>> /\ embeddings = <<>> /\ i = 0
    /\ calls = <<>> /\ conn = "none" /\ opened = 0 /\ txn = <<>>
    /\ committed = <<>> /\ raised = None /\ failed_at = None
    /\ entered = <<>> /\ exit_code = <<>>

InitChunk ==
    /\ call \in FixedCalls \cup SplitCalls \cup ChunkTextCalls
    /\ c_pc = "entry" /\ start = 0 /\ c_chunks = <<>> /\ iter = 0
    /\ PipelineIdle

\* chunk_fixed_size, lines 58-59
FixedEnter ==
    /\ call.fn = "chunk_fixed_size" /\ c_pc = "entry"
    /\ start' = FixedEntry.start /\ c_chunks' = FixedEntry.chunks
    /\ c_pc' = "loop"
    /\ UNCHANGED << call, iter >> /\ UNCHANGED pvars

\* chunk_fixed_size, lines 61-68: one pass of the while body
FixedIter ==
    /\ call.fn = "chunk_fixed_size" /\ c_pc = "loop"
    /\ FixedGuard(call.text, [start |-> start, chunks |-> c_chunks])
    /\ iter < MaxIter
    /\ LET st == FixedBody(call.text, call.chunk_size, call.overlap,
                           [start |-> start, chunks |-> c_chunks])
       IN  start' = st.start /\ c_chunks' = st.chunks
    /\ iter' = iter + 1
    /\ UNCHANGED << call, c_pc >> /\ UNCHANGED pvars

\* chunk_fixed_size, lines 61 and 70: the loop ends and the chunks are returned
FixedReturn ==
    /\ call.fn = "chunk_fixed_size" /\ c_pc = "loop"
    /\ ~FixedGuard(call.text, [start |-> start, chunks |-> c_chunks])
    /\ c_pc' = "returned"
    /\ UNCHANGED << call, start, c_chunks, iter >> /\ UNCHANGED pvars

SentencesCall ==
    /\ call.fn = "chunk_by_sentences" /\ c_pc = "entry"
    /\ c_chunks' = chunk_by_sentences(call.text)
    /\ c_pc' = "returned"
    /\ UNCHANGED << call, start, iter >> /\ UNCHANGED pvars

ParagraphsCall ==
    /\ call.fn = "chunk_by_paragraphs" /\ c_pc = "entry"
    /\ c_chunks' = chunk_by_paragraphs(call.text)
    /\ c_pc' = "returned"
    /\ UNCHANGED << call, start, iter >> /\ UNCHANGED pvars

ChunkTextReturn ==
    /\ call.fn = "chunk_text" /\ c_pc = "entry"
    /\ chunk_text(call.text, call.strategy).raised = None
    /\ c_chunks' = chunk_text(call.text, call.strategy).chunks
    /\ c_pc' = "returned"
    /\ UNCHANGED << call, start, iter >> /\ UNCHANGED pvars

ChunkTextRaise ==
    /\ call.fn = "chunk_text" /\ c_pc = "entry"
    /\ chunk_text(call.text, call.strategy).raised # None
    /\ c_pc' = "raised"
    /\ UNCHANGED << call, start, c_chunks, iter >> /\ UNCHANGED pvars

NextChunk ==
    \/ FixedEnter
    \/ FixedIter
    \/ FixedReturn
    \/ SentencesCall
    \/ ParagraphsCall
    \/ ChunkTextReturn
    \/ ChunkTextRaise

SpecChunk == InitChunk /\ [][NextChunk]_vars


\* ------------------------------------------------- claims on the chunkers
Returned == c_pc = "returned"

OnlyWhitespace(t) == \A k \in 1..Len(t) : t[k] \in Whitespace

NoTerminator(t) == \A k \in 1..Len(t) : t[k] \notin Terminators

\* A chunk as the data model wants it: non-empty, no whitespace at either end.
IsTrimmedChunk(c) ==
    /\ c # <<>>
    /\ c[1] \notin Whitespace
    /\ c[Len(c)] \notin Whitespace

OverlapTooLarge == call.fn = "chunk_fixed_size" /\ call.overlap >= call.chunk_size

ValidFixed ==
    /\ call.fn = "chunk_fixed_size"
    /\ call.chunk_size > 0
    /\ 0 <= call.overlap
    /\ call.overlap < call.chunk_size

\* The trimmed windows [k*(S-O), k*(S-O)+S) for the first n values of k.
TrimmedWindows(t, S, O, n) ==
    [k \in 1..n |->
        LET from == (k - 1) * (S - O)
            to   == IF from + S < Len(t) THEN from + S ELSE Len(t)
        IN  strip(SubSeq(t, from + 1, to))]

NonEmptyWindows(t, S, O, n) ==
    SelectSeq(TrimmedWindows(t, S, O, n), LAMBDA w : w # <<>>)

\* Number of starts 0, S-O, 2(S-O), ... below Len(t)
WindowCount(t, S, O) == (Len(t) + (S - O) - 1) \div (S - O)

\* C1: chunk_fixed_size called with overlap >= chunk_size is rejected at
\* entry, before any window is produced: it makes no pass of the loop and
\* collects no chunk.
C1_OverlapRejectedAtEntry ==
    OverlapTooLarge => (iter = 0 /\ c_chunks = <<>>)

\* C7: with chunk_size S > 0 and 0 <= O < S, chunk_fixed_size makes at most
\* Len(text) passes (it terminates), pass k starts at (k-1)(S-O), and it
\* returns exactly the non-empty trimmed windows [start, start+S) in order, the
\* short final window included; 1000 'a' with S=500, O=50 give chunks of
\* lengths 500, 500, 100.
C7_FixedWindows ==
    /\ ValidFixed =>
        LET S == call.chunk_size
            O == call.overlap
        IN  /\ iter <= Len(call.text)
            /\ iter < MaxIter
            /\ start = iter * (S - O)
            /\ c_chunks = NonEmptyWindows(call.text, S, O, iter)
            /\ Returned => iter = WindowCount(call.text, S, O)
    /\ (call.fn = "chunk_text" /\ call.text = ExampleText /\ Returned) =>
        /\ Len(c_chunks) = 3
        /\ << Len(c_chunks[1]), Len(c_chunks[2]), Len(c_chunks[3]) >> = << 500, 500, 100 >>
        /\ c_chunks[3] = SubSeq(ExampleText, 901, 1000)

C7_Witness ==
    /\ ValidFixed /\ Returned
    /\ call.overlap >= 1
    /\ Len(c_chunks) >= 2
    /\ Len(c_chunks) < iter
    /\ Len(c_chunks[Len(c_chunks)]) < call.chunk_size

ThreeStrategies ==
    \/ call.fn \in {"chunk_by_sentences", "chunk_by_paragraphs"}
    \/ call.fn = "chunk_text" /\ call.strategy \in VALID_STRATEGIES
    \/ ValidFixed

\* C8: for every text and each of the strategies fixed, sentence and
\* paragraph the chunker does not raise, every element of its result is
\* non-empty with no whitespace at either end, and an empty or
\* whitespace-only text yields the empty sequence.
C8_ChunksTrimmedNonEmpty ==
    ThreeStrategies =>
        /\ c_pc # "raised"
        /\ \A k \in 1..Len(c_chunks) : IsTrimmedChunk(c_chunks[k])
        /\ (Returned /\ OnlyWhitespace(call.text)) => c_chunks = <<>>

C8_Witness ==
    /\ call.fn = "chunk_by_sentences" /\ Returned
    /\ Len(c_chunks) = 2
    /\ Len(call.text) > Len(c_chunks[1]) + Len(c_chunks[2]) + 1

SentenceCall ==
    \/ call.fn = "chunk_by_sentences"
    \/ call.fn = "chunk_text" /\ call.strategy = "sentence"

\* C9 as stated: every text without '.', '!' or '?' splits into exactly one
\* sentence chunk, the whole trimmed text.
C9_NoTerminatorOneChunk ==
    (SentenceCall /\ Returned /\ NoTerminator(call.text)) =>
        c_chunks = << strip(call.text) >>

\* C9 amended: every text without '.', '!' or '?' that holds at least one
\* non-whitespace character splits into exactly one sentence chunk, the whole
\* trimmed text.
C9_NoTerminatorOneChunkIfNotBlank ==
    (SentenceCall /\ Returned /\ NoTerminator(call.text) /\ ~OnlyWhitespace(call.text)) =>
        c_chunks = << strip(call.text) >>

C9_Witness ==
    /\ call.fn = "chunk_by_sentences" /\ Returned
    /\ NoTerminator(call.text)
    /\ Len(call.text) >= 3
    /\ call.text[1] \in Whitespace
    /\ \E k \in 2..(Len(call.text) - 1) :
          /\ call.text[k] \in Whitespace
          /\ call.text[k - 1] \notin Whitespace
          /\ call.text[k + 1] \notin Whitespace
    /\ Len(c_chunks) = 1


\* ==================================================== Spec: a run of main
Vectors == 1..MaxVec
DocTexts == SeqsUpTo(DocAlphabet, MaxDocLen)
Exts == {".pdf", ".DOCX", ".txt"}
EnvValues == {None, "", "set"}

\* str.lower() on the suffixes of Exts
Lower(ext) == IF ext = ".DOCX" THEN ".docx" ELSE ext

\* extract_text: the suffixes it dispatches on
SupportedAny(ext) == TRUE

Supported(ext) == Lower(ext) = ".pdf" \/ Lower(ext) = ".docx"

\* "if not value" on os.getenv's result
MissingNever(v) == FALSE

Missing(v) == v = None \/ v = ""

\* Path(args.file_path).name
Filename(a) == << a.name, a.ext >>

SeqMin(a, b) == IF a < b THEN a ELSE b

zipReversed(xs, ys) ==
    [k \in 1..SeqMin(Len(xs), Len(ys)) |-> << xs[k], ys[Len(ys) + 1 - k] >>]

\* zip(chunks, embeddings): stops at the shorter sequence
zip(xs, ys) == [k \in 1..SeqMin(Len(xs), Len(ys)) |-> << xs[k], ys[k] >>]

\* store_chunks: data
Data(cs, es, filename, strategy) ==
    LET pairs == zip(cs, es)
    IN  [k \in 1..Len(pairs) |-> << pairs[k][1], pairs[k][2], filename, strategy >>]

InsertedAutocommit(db, data) ==
    [txn |-> <<>>, committed |-> db.committed \o data]

\* execute_values on a connection with autocommit off: the rows join the
\* open transaction
Inserted(db, data) == [txn |-> db.txn \o data, committed |-> db.committed]

\* conn.commit()
Committed(db) == [txn |-> <<>>, committed |-> db.committed \o db.txn]

\* The driver's stage at position p.
Stage(p, code) ==
    IF p \in {"parse_args", "check_exists"} THEN "Start"
    ELSE IF p \in {"extract", "check_text"} THEN "Extracting"
    ELSE IF p = "chunk" THEN "Chunking"
    ELSE IF p \in {"embed_setup", "embed_loop", "embed_wait"} THEN "Embedding"
    ELSE IF p \in {"store_connect", "store_insert", "store_commit",
                   "store_close", "store_returned"} THEN "Persisting"
    ELSE IF p = "exited" /\ code = << 0 >> THEN "Done"
    ELSE "Failed"

\* Record the stage the step enters, when it enters one.
Goto(p, code) ==
    /\ pc' = p
    /\ exit_code' = code
    /\ entered' = IF Stage(p, code) = Stage(pc, exit_code) THEN entered
                  ELSE Append(entered, Stage(p, code))

\* An exception leaves the current function and propagates to main's handlers.
Raise(kind) ==
    /\ raised' = kind
    /\ failed_at' = pc
    /\ Goto("raised", <<>>)

\* sys.exit(code): SystemExit is not an Exception, no handler of main takes it.
SysExit(code) ==
    /\ failed_at' = IF code = 0 THEN failed_at ELSE pc
    /\ Goto("exited", << code >>)

Init ==
    /\ call = [fn |-> None, text |-> <<>>, strategy |-> None,
               chunk_size |-> DEFAULT_CHUNK_SIZE, overlap |-> DEFAULT_CHUNK_OVERLAP]
    /\ c_pc = "idle" /\ start = 0 /\ c_chunks = <<>> /\ iter = 0
    /\ pc = "parse_args"
    /\ argv \in [exists : BOOLEAN, ext : Exts, name : {"doc"},
                 strategy : VALID_STRATEGIES \cup {"semantic"}]
    /\ env \in [GOOGLE_CLOUD_PROJECT : EnvValues, POSTGRES_URL : EnvValues]
    /\ text = <<>> /\ chunks = <<>> /\ embeddings = <<>> /\ i = 0
    /\ calls = <<>> /\ conn = "none" /\ opened = 0 /\ txn = <<>>
    /\ committed = <<>> /\ raised = None /\ failed_at = None
    /\ entered = <<>> /\ exit_code = <<>>

\* main, lines 158-172: argparse ends the process with status 2 when
\* --strategy is not one of its choices
ParseArgs ==
    /\ pc = "parse_args"
    /\ IF argv.strategy \in VALID_STRATEGIES
       THEN Goto("check_exists", <<>>) /\ UNCHANGED failed_at
       ELSE SysExit(2)
    /\ UNCHANGED << argv, env, text, chunks, embeddings, i, calls, conn,
                    opened, txn, committed, raised >>
    /\ UNCHANGED cvars

\* main, lines 177-180
CheckExists ==
    /\ pc = "check_exists"
    /\ IF ~argv.exists
       THEN SysExit(1)
       ELSE Goto("extract", <<>>) /\ UNCHANGED failed_at
    /\ UNCHANGED << argv, env, text, chunks, embeddings, i, calls, conn,
                    opened, txn, committed, raised >>
    /\ UNCHANGED cvars

\* main line 182, extract_text lines 46-54 with the extractors' text.strip()
ExtractText ==
    /\ pc = "extract"
    /\ Supported(argv.ext)
    /\ \E raw \in DocTexts : text' = strip(raw)
    /\ Goto("check_text", <<>>)
    /\ UNCHANGED << argv, env, chunks, embeddings, i, calls, conn, opened,
                    txn, committed, raised, failed_at >>
    /\ UNCHANGED cvars

\* extract_text line 54
ExtractUnsupported ==
    /\ pc = "extract"
    /\ ~Supported(argv.ext)
    /\ Raise("ValueError")
    /\ UNCHANGED << argv, env, text, chunks, embeddings, i, calls, conn,
                    opened, txn, committed >>
    /\ UNCHANGED cvars

\* fitz.open / Document fail on a file they cannot read
ExtractFail ==
    /\ pc = "extract"
    /\ Supported(argv.ext)
    /\ Raise("Exception")
    /\ UNCHANGED << argv, env, text, chunks, embeddings, i, calls, conn,
                    opened, txn, committed >>
    /\ UNCHANGED cvars

\* main, lines 184-187
CheckText ==
    /\ pc = "check_text"
    /\ IF text = <<>>
       THEN SysExit(1)
       ELSE Goto("chunk", <<>>) /\ UNCHANGED failed_at
    /\ UNCHANGED << argv, env, text, chunks, embeddings, i, calls, conn,
                    opened, txn, committed, raised >>
    /\ UNCHANGED cvars

\* main line 189
ChunkText ==
    /\ pc = "chunk"
    /\ LET r == chunk_text(text, argv.strategy)
       IN  IF r.raised = None
           THEN chunks' = r.chunks /\ Goto("embed_setup", <<>>)
                /\ UNCHANGED << raised, failed_at >>
           ELSE Raise(r.raised) /\ UNCHANGED chunks
    /\ UNCHANGED << argv, env, text, embeddings, i, calls, conn, opened,
                    txn, committed >>
    /\ UNCHANGED cvars

\* generate_embeddings, lines 98-108
EmbedSetup ==
    /\ pc = "embed_setup"
    /\ IF Missing(env.GOOGLE_CLOUD_PROJECT)
       THEN Raise("ValueError") /\ UNCHANGED << embeddings, i >>
       ELSE /\ embeddings' = <<>> /\ i' = 0
            /\ Goto("embed_loop", <<>>)
            /\ UNCHANGED << raised, failed_at >>
    /\ UNCHANGED << argv, env, text, chunks, calls, conn, opened, txn, committed >>
    /\ UNCHANGED cvars

\* generate_embeddings, lines 109-114: the call for the next chunk is sent
EmbedCall ==
    /\ pc = "embed_loop"
    /\ i < Len(chunks)
    /\ calls' = Append(calls, chunks[i + 1])
    /\ i' = i + 1
    /\ Goto("embed_wait", <<>>)
    /\ UNCHANGED << argv, env, text, chunks, embeddings, conn, opened, txn,
                    committed, raised, failed_at >>
    /\ UNCHANGED cvars

\* generate_embeddings, line 115: the call returns a vector
EmbedReturn ==
    /\ pc = "embed_wait"
    /\ \E v \in Vectors : embeddings' = Append(embeddings, v)
    /\ Goto("embed_loop", <<>>)
    /\ UNCHANGED << argv, env, text, chunks, i, calls, conn, opened, txn,
                    committed, raised, failed_at >>
    /\ UNCHANGED cvars

\* generate_embeddings, lines 111-114: the call fails
EmbedFail ==
    /\ pc = "embed_wait"
    /\ Raise("Exception")
    /\ UNCHANGED << argv, env, text, chunks, embeddings, i, calls, conn,
                    opened, txn, committed >>
    /\ UNCHANGED cvars

\* generate_embeddings, lines 117-118, main lines 190-193
EmbedDone ==
    /\ pc = "embed_loop"
    /\ i >= Len(chunks)
    /\ Goto("store_connect", <<>>)
    /\ UNCHANGED << argv, env, text, chunks, embeddings, i, calls, conn,
                    opened, txn, committed, raised, failed_at >>
    /\ UNCHANGED cvars

\* store_chunks line 134, get_db_connection lines 121-129
StoreConnect ==
    /\ pc = "store_connect"
    /\ IF Missing(env.POSTGRES_URL)
       THEN Raise("ValueError") /\ UNCHANGED << conn, opened >>
       ELSE /\ conn' = "open" /\ opened' = opened + 1
            /\ Goto("store_insert", <<>>)
            /\ UNCHANGED << raised, failed_at >>
    /\ UNCHANGED << argv, env, text, chunks, embeddings, i, calls, txn, committed >>
    /\ UNCHANGED cvars

\* get_db_connection line 127: psycopg2.connect fails
StoreConnectFail ==
    /\ pc = "store_connect"
    /\ ~Missing(env.POSTGRES_URL)
    /\ Raise("Exception")
    /\ UNCHANGED << argv, env, text, chunks, embeddings, i, calls, conn,
                    opened, txn, committed >>
    /\ UNCHANGED cvars

\* store_chunks, lines 135-148
StoreInsert ==
    /\ pc = "store_insert"
    /\ LET db == Inserted([txn |-> txn, committed |-> committed],
                          Data(chunks, embeddings, Filename(argv), argv.strategy))
       IN  txn' = db.txn /\ committed' = db.committed
    /\ Goto("store_commit", <<>>)
    /\ UNCHANGED << argv, env, text, chunks, embeddings, i, calls, conn,
                    opened, raised, failed_at >>
    /\ UNCHANGED cvars

\* store_chunks line 148: execute_values fails; the rows of the pages already
\* sent stay in the open transaction
StoreInsertFail ==
    /\ pc = "store_insert"
    /\ LET data == Data(chunks, embeddings, Filename(argv), argv.strategy)
       IN  \E n \in 0..Len(data) :
              /\ n < Len(data) \/ n = 0
              /\ LET db == Inserted([txn |-> txn, committed |-> committed],
                                    SubSeq(data, 1, n))
                 IN  txn' = db.txn /\ committed' = db.committed
    /\ Raise("Exception")
    /\ UNCHANGED << argv, env, text, chunks, embeddings, i, calls, conn, opened >>
    /\ UNCHANGED cvars

\* store_chunks line 150
StoreCommit ==
    /\ pc = "store_commit"
    /\ LET db == Committed([txn |-> txn, committed |-> committed])
       IN  txn' = db.txn /\ committed' = db.committed
    /\ Goto("store_close", <<>>)
    /\ UNCHANGED << argv, env, text, chunks, embeddings, i, calls, conn,
                    opened, raised, failed_at >>
    /\ UNCHANGED cvars

\* store_chunks line 150: conn.commit() fails, nothing is committed
StoreCommitFail ==
    /\ pc = "store_commit"
    /\ Raise("Exception")
    /\ UNCHANGED << argv, env, text, chunks, embeddings, i, calls, conn,
                    opened, txn, committed >>
    /\ UNCHANGED cvars

\* store_chunks, lines 151-154
StoreClose ==
    /\ pc = "store_close"
    /\ conn' = "closed"
    /\ Goto("store_returned", <<>>)
    /\ UNCHANGED << argv, env, text, chunks, embeddings, i, calls, opened,
                    txn, committed, raised, failed_at >>
    /\ UNCHANGED cvars

\* main, lines 195-196, then the process ends with status 0
MainSuccess ==
    /\ pc = "store_returned"
    /\ SysExit(0)
    /\ UNCHANGED << argv, env, text, chunks, embeddings, i, calls, conn,
                    opened, txn, committed, raised >>
    /\ UNCHANGED cvars

\* main, lines 198-201
MainExceptValueError ==
    /\ pc = "raised" /\ raised = "ValueError"
    /\ Goto("exited", << 1 >>)
    /\ UNCHANGED << argv, env, text, chunks, embeddings, i, calls, conn,
                    opened, txn, committed, raised, failed_at >>
    /\ UNCHANGED cvars

\* main, lines 202-205
MainExceptException ==
    /\ pc = "raised" /\ raised # "ValueError"
    /\ Goto("exited", << 1 >>)
    /\ UNCHANGED << argv, env, text, chunks, embeddings, i, calls, conn,
                    opened, txn, committed, raised, failed_at >>
    /\ UNCHANGED cvars

NextStore ==
    \/ StoreConnect
    \/ StoreConnectFail
    \/ StoreInsert
    \/ StoreInsertFail
    \/ StoreCommit
    \/ StoreCommitFail
    \/ StoreClose

Next ==
    \/ ParseArgs
    \/ CheckExists
    \/ ExtractText
    \/ ExtractUnsupported
    \/ ExtractFail
    \/ CheckText
    \/ ChunkText
    \/ EmbedSetup
    \/ EmbedCall
    \/ EmbedReturn
    \/ EmbedFail
    \/ EmbedDone
    \/ NextStore
    \/ MainSuccess
    \/ MainExceptValueError
    \/ MainExceptException

Spec == Init /\ [][Next]_vars

\* ===================================== SpecStore: store_chunks on its own
StoreChunkTexts == {<< "a" >>, << "b" >>}

InitStore ==
    /\ call = [fn |-> None, text |-> <<>>, strategy |-> None,
               chunk_size |-> DEFAULT_CHUNK_SIZE, overlap |-> DEFAULT_CHUNK_OVERLAP]
    /\ c_pc = "idle" /\ start = 0 /\ c_chunks = <<>> /\ iter = 0
    /\ pc = "store_connect"
    /\ argv = [exists |-> TRUE, ext |-> ".pdf", name |-> "doc", strategy |-> "fixed"]
    /\ env \in [GOOGLE_CLOUD_PROJECT : {"set"}, POSTGRES_URL : EnvValues]
    /\ text = <<>>
    /\ chunks \in SeqsUpTo(StoreChunkTexts, MaxStoreLen)
    /\ embeddings \in SeqsUpTo(Vectors, MaxStoreLen)
    /\ i = 0 /\ calls = <<>> /\ conn = "none" /\ opened = 0 /\ txn = <<>>
    /\ committed = <<>> /\ raised = None /\ failed_at = None
    /\ entered = <<>> /\ exit_code = <<>>

SpecStore == InitStore /\ [][NextStore]_vars


\* --------------------------------------------------- claims on store_chunks
\* C2: store_chunks called with chunk and embedding sequences of different
\* lengths writes no row, neither inserted nor committed, and does not
\* return normally.
C2_MismatchPreventsWrite ==
    Len(chunks) # Len(embeddings) =>
        /\ txn = <<>>
        /\ committed = <<>>
        /\ pc # "store_returned"

\* -------------------------------------------------------- claims on a run
Exited == pc = "exited"

\* One row per chunk: (chunk_text, embedding, filename, split_strategy)
OneRowPerChunk ==
    /\ Len(committed) = Len(chunks)
    /\ Len(embeddings) = Len(chunks)
    /\ \A k \in 1..Len(chunks) :
          committed[k] = << chunks[k], embeddings[k], Filename(argv), argv.strategy >>

\* C3 as stated: a run ends with exit code 0 and exactly one committed row
\* per chunk, or with exit code 1 and no committed row.
C3_AllOrNothingExitZeroOrOne ==
    Exited =>
        \/ exit_code = << 0 >> /\ chunks # <<>> /\ OneRowPerChunk
        \/ exit_code = << 1 >> /\ committed = <<>>

\* C3 amended: a run ends with exit code 0 and exactly one committed row per
\* chunk, or with no committed row and exit code 1, or exit code 2 when
\* argument parsing rejects the strategy; until then no row is committed
\* unless all are.
C3_AllOrNothing ==
    /\ committed # <<>> => OneRowPerChunk
    /\ Exited =>
        \/ exit_code = << 0 >> /\ chunks # <<>> /\ OneRowPerChunk
        \/ exit_code = << 1 >> /\ committed = <<>>
        \/ /\ exit_code = << 2 >> /\ committed = <<>>
           /\ argv.strategy \notin VALID_STRATEGIES
           /\ failed_at = "parse_args"

C3_Witness ==
    /\ Exited /\ exit_code = << 1 >>
    /\ failed_at = "store_commit"
    /\ Len(txn) >= 2

IsOrderedPrefix(s, order) ==
    /\ Len(s) <= Len(order)
    /\ \A k \in 1..Len(s) : s[k] = order[k]

StageOrder == << "Extracting", "Chunking", "Embedding", "Persisting", "Done" >>

Entered(st) == \E k \in 1..Len(entered) : entered[k] = st

\* C4: the stages are entered in the order Extracting, Chunking, Embedding,
\* Persisting, Done, each at most once and none skipped, Failed being last
\* when entered; Extracting is entered only if the file exists and a missing
\* file ends the run non-zero; Chunking is entered only if the lower-cased
\* suffix is .pdf or .docx and the extracted text is not empty.
C4_StagesInOrder ==
    /\ \/ IsOrderedPrefix(entered, StageOrder)
       \/ /\ entered # <<>>
          /\ entered[Len(entered)] = "Failed"
          /\ Len(entered) <= Len(StageOrder)
          /\ IsOrderedPrefix(SubSeq(entered, 1, Len(entered) - 1), StageOrder)
          /\ Exited \/ pc = "raised"
    /\ Entered("Extracting") => argv.exists
    /\ (Exited /\ ~argv.exists) => (exit_code # << 0 >> /\ ~Entered("Extracting"))
    /\ Entered("Chunking") =>
          /\ Lower(argv.ext) \in {".pdf", ".docx"}
          /\ text # <<>>
    /\ (Exited /\ (Lower(argv.ext) \notin {".pdf", ".docx"} \/ text = <<>>)) =>
          exit_code # << 0 >>

C4_Witness ==
    /\ Exited
    /\ entered = StageOrder
    /\ argv.ext = ".DOCX"

ProjectAbsent == env.GOOGLE_CLOUD_PROJECT = None

UrlAbsent == env.POSTGRES_URL = None

\* C5 as stated: when the project identifier or the database URL is absent,
\* no embedding call is made, no row is written and the run ends with exit
\* code 1.
C5_AbsentConfigFatalBeforeAnyCall ==
    (ProjectAbsent \/ UrlAbsent) =>
        /\ calls = <<>>
        /\ txn = <<>> /\ committed = <<>>
        /\ Exited => exit_code = << 1 >>

\* C5 amended: when the project identifier is absent no embedding call is
\* made and no row is written; when the database URL is absent no connection
\* is opened and no row is written (the embedding calls are made first); in
\* both cases the run ends with exit code 1, or 2 when argument parsing
\* rejects the strategy.
C5_AbsentConfigFatal ==
    /\ ProjectAbsent => calls = <<>>
    /\ (ProjectAbsent \/ UrlAbsent) =>
        /\ conn = "none" /\ opened = 0
        /\ txn = <<>> /\ committed = <<>>
        /\ Exited =>
            \/ exit_code = << 1 >>
            \/ exit_code = << 2 >> /\ argv.strategy \notin VALID_STRATEGIES

C5_Witness ==
    /\ Exited /\ exit_code = << 1 >>
    /\ UrlAbsent /\ ~ProjectAbsent
    /\ failed_at = "store_connect"
    /\ Len(calls) >= 2

\* C6: embedding calls are made one at a time, call k for chunk k, the next
\* only after the previous returned; on success there is one embedding per
\* chunk and row k holds chunk k of the text's chunks, in order, with the
\* vector returned for chunk k.
C6_OneCallPerChunkInOrder ==
    /\ calls = SubSeq(chunks, 1, Len(calls))
    /\ Len(embeddings) <= Len(calls)
    /\ Len(calls) <= Len(embeddings) + 1
    /\ (Len(calls) = Len(embeddings) + 1) <=> (pc = "embed_wait" \/ failed_at = "embed_wait")
    /\ \A k \in 1..Len(committed) :
          /\ k <= Len(calls) /\ k <= Len(embeddings)
          /\ committed[k][1] = calls[k]
          /\ committed[k][2] = embeddings[k]
    /\ (Exited /\ exit_code = << 0 >>) =>
          /\ Len(calls) = Len(chunks)
          /\ Len(embeddings) = Len(chunks)
          /\ Len(committed) = Len(chunks)
          /\ chunks = chunk_text(text, argv.strategy).chunks

C6_Witness ==
    /\ Exited /\ exit_code = << 0 >>
    /\ Len(committed) >= 2
    /\ committed[1][1] # committed[2][1]
    /\ committed[1][2] # committed[2][2]

\* C10: at most one connection is opened, only once the Persisting stage is
\* entered, and no connection is left open when the process ends.
C10_ConnectionScoped ==
    /\ opened <= 1
    /\ conn # "none" => Entered("Persisting")
    /\ Exited => conn # "open"

====
